---- MODULE Spec2Model ----
(***************************************************************************)
(* rupnp, src/scpd.rs: the UPnP Service Control Protocol Description       *)
(* (SCPD) document model, its accessors, the type mapper and the fetch     *)
(* orchestration SCPD::from_url.                                           *)
(*                                                                         *)
(* Strings that the code inspects character by character (state variable   *)
(* names, related_state_variable, the mapped type names returned as &str)  *)
(* are sequences of one-character strings, so that prefix trimming is      *)
(* computed and not assumed.  Strings the code only stores and hands back  *)
(* (urn, uri, action and argument names) are plain strings.                *)
(***************************************************************************)
EXTENDS Naturals, Sequences, FiniteSets

VARIABLES
    pc,        \* from_url: "idle", "awaiting" (suspended at .await), "done"
    req,       \* the (uri, urn) arguments of the from_url call in progress
    gets,      \* number of HTTP GET requests issued by client.get(uri)
    parses,    \* number of serde_xml_rs::from_reader calls made
    result,    \* the Result<SCPD, Error> from_url returned, or NoResult
    body,      \* the response body read by concat2, or NoBody
    scpd,      \* the SCPD value the caller owns, or NoSCPD
    urn_sets,  \* number of assignments made to scpd.urn
    subject,   \* a deserialized StateVariable, Argument or Action being read
    iters,     \* the live filter iterators over subject's argument_list
    last       \* what the most recent accessor call returned

vars == <<pc, req, gets, parses, result, body, scpd, urn_sets, subject, iters, last>>

-----------------------------------------------------------------------------
(* Bounds of the model *)

\* names are concatenations of at most MaxPieces pieces
MaxPieces == 3
\* an Action of the accessor specification has at most MaxArgs arguments
MaxArgs == 3
\* a fetched document has at most MaxDocLen state variables and actions
MaxDocLen == 1
\* set_urn calls counted per SCPD value
MaxUrnSets == 2

-----------------------------------------------------------------------------
(* Option<T> and Value<T> *)

None == [some |-> FALSE]
Some(v) == [some |-> TRUE, val |-> v]
is_some(o) == o.some

\* crate::shared::Value<T>: a wrapper read through its .value field
Value(v) == [value |-> v]

\* all sequences over S of length at most n
RECURSIVE SeqUpTo(_, _)
SeqUpTo(S, n) ==
    IF n = 0 THEN {<<>>}
    ELSE LET shorter == SeqUpTo(S, n - 1)
         IN  shorter \cup {Append(s, x) : s \in {t \in shorter : Len(t) = n - 1}, x \in S}

-----------------------------------------------------------------------------
(* Enums *)

Direction == {"In", "Out"}

Bool == {"Yes", "No"}
yes == "Yes"
no == "No"

DataType ==
    {"ui1", "ui2", "ui4", "ui8", "i1", "i2", "i4", "int", "r4", "r8", "number",
     "float", "fixed14_4", "char", "string", "date", "dateTime", "dateTimeTz",
     "time", "timeTz", "boolean", "binBase64", "binHex", "uri"}

is_in(d) ==
    CASE d = "In" -> TRUE
      [] d = "Out" -> FALSE

is_out_same_as_in(d) == is_in(d)
is_out(d) == ~ is_in(d)

-----------------------------------------------------------------------------
(* Name normalization *)

\* the literal "A_ARG_TYPE_"
Prefix == <<"A","_","A","R","G","_","T","Y","P","E","_">>

starts_with(s, pat) == Len(s) >= Len(pat) /\ SubSeq(s, 1, Len(pat)) = pat

\* str::trim_start_matches: removes every consecutive leading match of pat
RECURSIVE trim_start_matches(_, _)
trim_start_matches(s, pat) ==
    IF pat # <<>> /\ starts_with(s, pat)
    THEN trim_start_matches(SubSeq(s, Len(pat) + 1, Len(s)), pat)
    ELSE s

\* what str::strip_prefix would give: one leading match removed at most
trim_one_match(s, pat) ==
    IF starts_with(s, pat) THEN SubSeq(s, Len(pat) + 1, Len(s)) ELSE s

related_state_variable_one_match(arg) ==
    trim_one_match(arg.related_state_variable, Prefix)
related_state_variable(arg) ==
    trim_start_matches(arg.related_state_variable, Prefix)

name_one_match(sv) == trim_one_match(sv.name, Prefix)
name(sv) == trim_start_matches(sv.name, Prefix)

optional(sv) == is_some(sv.optional)

allowed_values(sv) ==
    IF is_some(sv.allowed_value_list)
    THEN Some(sv.allowed_value_list.val.value)
    ELSE None

-----------------------------------------------------------------------------
(* Type mapper.  A call either returns a &str or panics (unimplemented!). *)

Returned(s) == [kind |-> "returned", val |-> s]
Panicked == [kind |-> "panicked"]

primitive(t) ==
    CASE t = "ui1" -> Returned(<<"u","8">>)
      [] t = "ui2" -> Returned(<<"u","1","6">>)
      [] t = "ui4" -> Returned(<<"u","3","2">>)
      [] t = "ui8" -> Returned(<<"u","6","4">>)
      [] t = "i1" -> Returned(<<"i","8">>)
      [] t = "i2" -> Returned(<<"i","1","6">>)
      [] t = "i4" -> Returned(<<"i","3","2">>)
      [] t = "int" -> Returned(<<"i","6","4">>)
      [] t = "char" -> Returned(<<"c","h","a","r">>)
      [] t = "string" -> Returned(<<"S","t","r","i","n","g">>)
      [] t = "boolean" ->
            Returned(<<"u","p","n","p",":",":","d","a","t","a","t","y","p","e","s",
                       ":",":","B","o","o","l">>)
      [] t = "uri" -> Returned(<<"h","y","p","e","r",":",":","U","r","i">>)
      [] OTHER -> Panicked

\* the match with a catch-all arm that returns a placeholder
data_type_str_placeholder(sv) ==
    IF is_some(allowed_values(sv))
    THEN Returned(name(sv))
    ELSE IF primitive(sv.data_type) = Panicked
         THEN Returned(<<"S","t","r","i","n","g">>)
         ELSE primitive(sv.data_type)

\* the match tried before the enumeration
data_type_str_primitive_first(sv) ==
    IF primitive(sv.data_type) # Panicked
    THEN primitive(sv.data_type)
    ELSE IF is_some(allowed_values(sv)) THEN Returned(name(sv)) ELSE Panicked

\* the int arm pasted from the i4 arm
data_type_str_int_as_i4(sv) ==
    IF is_some(allowed_values(sv))
    THEN Returned(name(sv))
    ELSE IF sv.data_type = "int" THEN primitive("i4") ELSE primitive(sv.data_type)

\* the enumeration recognised by its contents, not by its presence
data_type_str_nonempty_only(sv) ==
    IF is_some(allowed_values(sv)) /\ allowed_values(sv).val # <<>>
    THEN Returned(name(sv))
    ELSE primitive(sv.data_type)

data_type_str(sv) ==
    IF is_some(allowed_values(sv))
    THEN Returned(name(sv))
    ELSE primitive(sv.data_type)

data_type_str_input(sv) == data_type_str(sv)
data_type_str_output(sv) == data_type_str(sv)

-----------------------------------------------------------------------------
(* Action: arguments and the two filtered views *)

arguments(a) == a.argument_list.value

\* The state of slice::Iter + Filter: pos is the first element not yet
\* examined, yielded lists the positions of the references handed out so
\* far, done is set once next() has returned None.
NewIter == [pos |-> 1, yielded |-> <<>>, done |-> FALSE]
NoIter == [pos |-> 0, yielded |-> <<>>, done |-> FALSE]

matches(view, arg) ==
    IF view = "input" THEN is_in(arg.direction) ELSE is_out(arg.direction)

\* next() of a filter over the slice walked from the back
filter_next_rev(args, view, it) ==
    LET n == Len(args)
        hits == {j \in 1..n : j <= n - it.pos + 1 /\ matches(view, args[j])}
    IN  IF hits = {}
        THEN [pos |-> n + 1, yielded |-> it.yielded, done |-> TRUE]
        ELSE LET j == CHOOSE k \in hits : \A m \in hits : m <= k
             IN  [pos |-> n - j + 2, yielded |-> Append(it.yielded, j), done |-> FALSE]

\* next() of args.iter().filter(pred): skip to the first remaining match
filter_next(args, view, it) ==
    LET hits == {j \in it.pos..Len(args) : matches(view, args[j])}
    IN  IF hits = {}
        THEN [pos |-> Len(args) + 1, yielded |-> it.yielded, done |-> TRUE]
        ELSE LET j == CHOOSE k \in hits : \A m \in hits : k <= m
             IN  [pos |-> j + 1, yielded |-> Append(it.yielded, j), done |-> FALSE]

-----------------------------------------------------------------------------
(* The values the accessor specification reads *)

Pieces == {Prefix, <<"A","_","A","R","G","_">>, <<"T","Y","P","E","_">>, <<"F","o","o">>}

RECURSIVE Concat(_)
Concat(ps) == IF ps = <<>> THEN <<>> ELSE Head(ps) \o Concat(Tail(ps))

Names == {Concat(ps) : ps \in SeqUpTo(Pieces, MaxPieces)}

AllowedValueLists ==
    {None, Some(Value(<<>>)), Some(Value(<<"A", "B">>))}

AllowedValueRange(minimum, maximum, step) ==
    [minimum |-> minimum, maximum |-> maximum, step |-> step]

\* the fields the mapper does not read: as defaulted, and all set
OtherFields ==
    {[send_events_attribute |-> yes, multicast |-> no, default_value |-> None,
      allowed_value_range |-> None, optional |-> None],
     [send_events_attribute |-> no, multicast |-> yes, default_value |-> Some("0"),
      allowed_value_range |-> Some(AllowedValueRange(1, 1, 1)), optional |-> Some(<<>>)]}

StateVariable(n, t, avl, o) ==
    [name |-> n,
     send_events_attribute |-> o.send_events_attribute,
     multicast |-> o.multicast,
     data_type |-> t,
     default_value |-> o.default_value,
     allowed_value_list |-> avl,
     allowed_value_range |-> o.allowed_value_range,
     optional |-> o.optional]

StateVariables ==
    {StateVariable(n, t, avl, o) :
        n \in Names, t \in DataType, avl \in AllowedValueLists, o \in OtherFields}

Argument(n, d, rsv) == [name |-> n, direction |-> d, related_state_variable |-> rsv]

Arguments == {Argument("arg", d, rsv) : d \in Direction, rsv \in Names}

\* arguments of the Actions read: both directions, equal arguments included
ListedArguments ==
    {Argument(n, d, <<"F","o","o">>) : n \in {"a", "b"}, d \in Direction}

Action(n, args) == [name |-> n, argument_list |-> Value(args)]

Actions == {Action("Act", args) : args \in SeqUpTo(ListedArguments, MaxArgs)}

NoSubject == [kind |-> "none"]

Subjects ==
    {[kind |-> "StateVariable", v |-> sv] : sv \in StateVariables}
    \cup {[kind |-> "Argument", v |-> arg] : arg \in Arguments}
    \cup {[kind |-> "Action", v |-> a] : a \in Actions}

Views == {"input", "output"}
NoIters == [view \in Views |-> NoIter]

NoCall == [op |-> "none"]
NoResult == [kind |-> "none"]
NoSCPD == [kind |-> "none"]
NoReq == [kind |-> "none"]
NoBody == [kind |-> "none"]

-----------------------------------------------------------------------------
(* Accessor specification: one deserialized value, read by its accessors *)

FetchIdle ==
    /\ pc = "idle"
    /\ req = NoReq
    /\ gets = 0
    /\ parses = 0
    /\ result = NoResult
    /\ body = NoBody
    /\ scpd = NoSCPD
    /\ urn_sets = 0

InitAccessors ==
    /\ FetchIdle
    /\ subject \in Subjects
    /\ iters = NoIters
    /\ last = NoCall

Read(op, out) ==
    /\ last' = [op |-> op, out |-> out]
    /\ UNCHANGED <<pc, req, gets, parses, result, body, scpd, urn_sets, subject, iters>>

CallName ==
    /\ subject.kind = "StateVariable"
    /\ Read("name", name(subject.v))

CallOptional ==
    /\ subject.kind = "StateVariable"
    /\ Read("optional", optional(subject.v))

CallAllowedValues ==
    /\ subject.kind = "StateVariable"
    /\ Read("allowed_values", allowed_values(subject.v))

CallDataTypeStrInput ==
    /\ subject.kind = "StateVariable"
    /\ Read("data_type_str_input", data_type_str_input(subject.v))

CallDataTypeStrOutput ==
    /\ subject.kind = "StateVariable"
    /\ Read("data_type_str_output", data_type_str_output(subject.v))

CallRelatedStateVariable ==
    /\ subject.kind = "Argument"
    /\ Read("related_state_variable", related_state_variable(subject.v))

CallArguments ==
    /\ subject.kind = "Action"
    /\ Read("arguments", arguments(subject.v))

\* input_arguments() / output_arguments(): a fresh iterator at the start
CallView(view) ==
    /\ subject.kind = "Action"
    /\ iters' = [iters EXCEPT ![view] = NewIter]
    /\ UNCHANGED <<pc, req, gets, parses, result, body, scpd, urn_sets, subject, last>>

\* Iterator::next on a live view
IterNext(view) ==
    /\ subject.kind = "Action"
    /\ iters[view] # NoIter
    /\ ~ iters[view].done
    /\ iters' = [iters EXCEPT ![view] = filter_next(arguments(subject.v), view, @)]
    /\ UNCHANGED <<pc, req, gets, parses, result, body, scpd, urn_sets, subject, last>>

NextAccessors ==
    \/ CallName
    \/ CallOptional
    \/ CallAllowedValues
    \/ CallDataTypeStrInput
    \/ CallDataTypeStrOutput
    \/ CallRelatedStateVariable
    \/ CallArguments
    \/ \E view \in Views : CallView(view)
    \/ \E view \in Views : IterNext(view)

SpecAccessors == InitAccessors /\ [][NextAccessors]_vars

-----------------------------------------------------------------------------
(* SCPD and the fetch orchestration *)

state_variables(s) == s.service_state_table.value
actions(s) == s.action_list.value

urn(s) == s.urn

\* a setter that rebuilds the value around the new urn
set_urn_rebuilds(s, val) ==
    [urn |-> val, service_state_table |-> Value(<<>>), action_list |-> Value(<<>>)]
\* the setter generated by #[set = "pub"]
set_urn(s, val) == [s EXCEPT !.urn = val]

destructure(s) == <<s.urn, s.service_state_table.value, s.action_list.value>>

Ok(v) == [kind |-> "Ok", val |-> v]
Err(e) == [kind |-> e]

\* the documents a device serves
DocStateVariables ==
    {StateVariable(<<"V","o","l","u","m","e">>, "ui2", None,
                   CHOOSE o \in OtherFields : o.optional = None),
     StateVariable(Prefix \o <<"F","o","o">>, "string", Some(Value(<<"A", "B">>)),
                   CHOOSE o \in OtherFields : o.optional = None)}

DocActions ==
    {Action("GetVolume",
            <<Argument("CurrentVolume", "Out", <<"V","o","l","u","m","e">>)>>),
     Action("SetFoo", <<Argument("NewFoo", "In", Prefix \o <<"F","o","o">>)>>)}

Docs ==
    {[service_state_table |-> Value(svs), action_list |-> Value(acts)] :
        svs \in SeqUpTo(DocStateVariables, MaxDocLen),
        acts \in SeqUpTo(DocActions, MaxDocLen)}

\* response bodies: documents serde accepts, and bodies it rejects
Bodies ==
    {[kind |-> "wellformed", doc |-> d] : d \in Docs}
    \cup {[kind |-> "malformed", why |-> w] : w \in {"not xml", "direction: Sideways"}}

Uris == {"http://10.0.0.1/scpd.xml", "http://10.0.0.2/scpd.xml"}
Urns == {"", "urn:schemas-upnp-org:service:RenderingControl:1",
         "urn:schemas-upnp-org:service:AVTransport:1"}

\* From<serde_xml_rs::Error> for crate::Error, applied by the ? operator
XmlErrorToError == "ParseError"

\* serde_xml_rs::from_reader into SCPD: urn is skipped, so it is String::default()
from_reader(b) ==
    IF b.kind = "wellformed"
    THEN Ok([urn |-> "",
             service_state_table |-> b.doc.service_state_table,
             action_list |-> b.doc.action_list])
    ELSE Err(XmlErrorToError)

\* from_url after the body arrived, without the urn assignment
from_url_resume_urn_forgotten(b, new_urn) ==
    LET parsed == from_reader(b)
    IN  IF parsed.kind # "Ok"
        THEN [result |-> parsed, urn_sets |-> 0]
        ELSE [result |-> Ok(parsed.val), urn_sets |-> 0]

\* from_url after the body arrived: deserialize, assign urn, return
from_url_resume(b, new_urn) ==
    LET parsed == from_reader(b)
    IN  IF parsed.kind # "Ok"
        THEN [result |-> parsed, urn_sets |-> 0]
        ELSE [result |-> Ok([parsed.val EXCEPT !.urn = new_urn]), urn_sets |-> 1]

-----------------------------------------------------------------------------
(* Fetch specification: one from_url call and the caller's use of its SCPD *)

Init ==
    /\ FetchIdle
    /\ subject = NoSubject
    /\ iters = NoIters
    /\ last = NoCall

\* from_url is called and runs to its .await: the GET is issued
FromUrlCall(uri, new_urn) ==
    /\ pc = "idle"
    /\ pc' = "awaiting"
    /\ req' = [uri |-> uri, urn |-> new_urn]
    /\ gets' = gets + 1
    /\ UNCHANGED <<parses, result, body, scpd, urn_sets, subject, iters, last>>

\* the GET or the body read fails: map_err(Error::NetworkError), then ?
FromUrlNetworkError ==
    /\ pc = "awaiting"
    /\ pc' = "done"
    /\ result' = Err("NetworkError")
    /\ UNCHANGED <<req, gets, parses, body, scpd, urn_sets, subject, iters, last>>

\* the body arrives and from_url runs to its end
FromUrlResume(b) ==
    /\ pc = "awaiting"
    /\ pc' = "done"
    /\ body' = b
    /\ parses' = parses + 1
    /\ LET r == from_url_resume(b, req.urn)
       IN  /\ result' = r.result
           /\ scpd' = IF r.result.kind = "Ok" THEN r.result.val ELSE NoSCPD
           /\ urn_sets' = r.urn_sets
    /\ UNCHANGED <<req, gets, subject, iters, last>>

ReadSCPD(op, out) ==
    /\ scpd # NoSCPD
    /\ last' = [op |-> op, out |-> out]
    /\ UNCHANGED <<pc, req, gets, parses, result, body, scpd, urn_sets, subject, iters>>

CallUrn == ReadSCPD("urn", urn(scpd))
CallStateVariables == ReadSCPD("state_variables", state_variables(scpd))
CallActions == ReadSCPD("actions", actions(scpd))

CallSetUrn(val) ==
    /\ scpd # NoSCPD
    /\ urn_sets < MaxUrnSets
    /\ scpd' = set_urn(scpd, val)
    /\ urn_sets' = urn_sets + 1
    /\ UNCHANGED <<pc, req, gets, parses, result, body, subject, iters, last>>

\* destructure(self) consumes the value
CallDestructure ==
    /\ scpd # NoSCPD
    /\ last' = [op |-> "destructure", out |-> destructure(scpd)]
    /\ scpd' = NoSCPD
    /\ UNCHANGED <<pc, req, gets, parses, result, body, urn_sets, subject, iters>>

Next ==
    \/ \E uri \in Uris, new_urn \in Urns : FromUrlCall(uri, new_urn)
    \/ FromUrlNetworkError
    \/ \E b \in Bodies : FromUrlResume(b)
    \/ CallUrn
    \/ CallStateVariables
    \/ CallActions
    \/ \E val \in Urns : CallSetUrn(val)
    \/ CallDestructure

Spec == Init /\ [][Next]_vars

-----------------------------------------------------------------------------
(* Properties *)

Foo == <<"F","o","o">>

BeginsWithPrefix(s) == Len(s) >= Len(Prefix) /\ SubSeq(s, 1, Len(Prefix)) = Prefix

Unsupported ==
    {"r4", "r8", "number", "float", "fixed14_4", "date", "dateTime", "dateTimeTz",
     "time", "timeTz", "binBase64", "binHex"}

Supported == DataType \ Unsupported

\* a type-mapper call on the StateVariable has just returned or panicked
MapperCalled ==
    /\ subject.kind = "StateVariable"
    /\ last.op \in {"data_type_str_input", "data_type_str_output"}

ListAbsent == subject.v.allowed_value_list = None

\* C1 as stated: mapping a StateVariable with an unsupported data_type and no
\* allowed_value_list hands the caller an UnsupportedTypeError error value.
C1_UnsupportedIsErrorValue ==
    (MapperCalled /\ ListAbsent /\ subject.v.data_type \in Unsupported)
        => last.out = [kind |-> "error", val |-> "UnsupportedTypeError"]

\* C1 amended: mapping a StateVariable with an unsupported data_type and no
\* allowed_value_list never returns a type name (no default, no placeholder):
\* the call panics in unimplemented!() and hands the caller no value at all.
C1_UnsupportedPanics ==
    (MapperCalled /\ ListAbsent /\ subject.v.data_type \in Unsupported)
        => (last.out.kind # "returned" /\ last.out = Panicked)

C1_Witness ==
    /\ MapperCalled
    /\ ListAbsent
    /\ subject.v.data_type = "r4"
    /\ last.out = Panicked

\* C3: a StateVariable with a non-empty allowed_value_list maps, by either
\* mapper entry point and for every data_type (the unsupported tags
\* included), to its own name with the A_ARG_TYPE_ prefix stripped.
C3_EnumerationMapsToOwnName ==
    (/\ MapperCalled
     /\ subject.v.allowed_value_list # None
     /\ subject.v.allowed_value_list.val.value # <<>>)
        => /\ last.out = Returned(name(subject.v))
           /\ ~ BeginsWithPrefix(last.out.val)
           /\ (subject.v.name = Prefix \o Foo => last.out.val = Foo)

C3_Witness ==
    /\ MapperCalled
    /\ subject.v.name = Prefix \o Foo
    /\ subject.v.data_type = "r4"
    /\ subject.v.allowed_value_list = Some(Value(<<"A", "B">>))
    /\ last.out = Returned(Foo)

\* the table of section 4.2, as target type names
TargetType ==
    [t \in Supported |->
        CASE t = "ui1" -> <<"u","8">>
          [] t = "ui2" -> <<"u","1","6">>
          [] t = "ui4" -> <<"u","3","2">>
          [] t = "ui8" -> <<"u","6","4">>
          [] t = "i1" -> <<"i","8">>
          [] t = "i2" -> <<"i","1","6">>
          [] t = "i4" -> <<"i","3","2">>
          [] t = "int" -> <<"i","6","4">>
          [] t = "char" -> <<"c","h","a","r">>
          [] t = "string" -> <<"S","t","r","i","n","g">>
          [] t = "boolean" ->
                <<"u","p","n","p",":",":","d","a","t","a","t","y","p","e","s",
                  ":",":","B","o","o","l">>
          [] t = "uri" -> <<"h","y","p","e","r",":",":","U","r","i">>]

\* C4: without an allowed_value_list, every call of the mapper on a supported
\* tag returns the one target type the table fixes for the tag, whatever the
\* name and the other fields are and however often it is called.
C4_PrimitiveTable ==
    (MapperCalled /\ ListAbsent /\ subject.v.data_type \in Supported)
        => last.out = Returned(TargetType[subject.v.data_type])

C4_Witness ==
    /\ MapperCalled
    /\ ListAbsent
    /\ subject.v.data_type = "int"
    /\ subject.v.name = Prefix \o Foo
    /\ subject.v.optional # None
    /\ last.out = Returned(<<"i","6","4">>)

Count(seq, x) == Cardinality({k \in DOMAIN seq : seq[k] = x})

\* C5: the positions yielded by input_arguments() and output_arguments() lie
\* in arguments(), no position is yielded twice or by both views, and once
\* both views are exhausted every position has been yielded by exactly one.
C5_ViewsPartitionArguments ==
    subject.kind = "Action" =>
        LET n == Len(arguments(subject.v))
            yin == iters["input"].yielded
            yout == iters["output"].yielded
        IN  /\ \A k \in DOMAIN yin : yin[k] \in 1..n
            /\ \A k \in DOMAIN yout : yout[k] \in 1..n
            /\ \A j \in 1..n : Count(yin, j) + Count(yout, j) <= 1
            /\ (iters["input"].done /\ iters["output"].done)
                  => \A j \in 1..n : Count(yin, j) + Count(yout, j) = 1

C5_Witness ==
    /\ subject.kind = "Action"
    /\ Len(arguments(subject.v)) = MaxArgs
    /\ iters["input"].done
    /\ iters["output"].done
    /\ iters["input"].yielded # <<>>
    /\ iters["output"].yielded # <<>>

DirectionOf(view) == IF view = "input" THEN "In" ELSE "Out"

Increasing(seq) == \A k \in 1..(Len(seq) - 1) : seq[k] < seq[k + 1]

\* the positions a finished (or running) view must have yielded so far
YieldedInOrder(view) ==
    LET args == arguments(subject.v)
        it == iters[view]
        seen == {j \in 1..Len(args) :
                    /\ args[j].direction = DirectionOf(view)
                    /\ (it.done \/ j < it.pos)}
    IN  /\ Increasing(it.yielded)
        /\ {it.yielded[k] : k \in DOMAIN it.yielded} = seen
        /\ Len(it.yielded) = Cardinality(seen)

\* C6: each view yields the arguments of its direction in declared order,
\* every fresh call yields that same sequence from the first argument on,
\* and no call of a view or step of its iterator changes the argument list.
C6_ViewsOrderedAndNonConsuming ==
    /\ [](subject.kind = "Action" =>
            \A view \in Views : iters[view] # NoIter => YieldedInOrder(view))
    /\ [][subject.kind = "Action" => arguments(subject'.v) = arguments(subject.v)]_vars

C6_Witness ==
    /\ subject.kind = "Action"
    /\ iters["input"].done
    /\ iters["input"].yielded = <<1, 3>>
    /\ iters["output"] = NewIter
    /\ arguments(subject.v)[1] = arguments(subject.v)[3]

\* what a read of a name must have returned
StripReads ==
    /\ (subject.kind = "StateVariable" /\ last.op = "name") =>
          /\ name([subject.v EXCEPT !.name = last.out]) = last.out
          /\ (subject.v.name = Prefix \o Foo => last.out = Foo)
          /\ (~ BeginsWithPrefix(subject.v.name) => last.out = subject.v.name)
    /\ (subject.kind = "Argument" /\ last.op = "related_state_variable") =>
          /\ related_state_variable(
                [subject.v EXCEPT !.related_state_variable = last.out]) = last.out
          /\ (subject.v.related_state_variable = Prefix \o Foo => last.out = Foo)
          /\ (~ BeginsWithPrefix(subject.v.related_state_variable)
                => last.out = subject.v.related_state_variable)

\* C7: reading a name strips the literal leading A_ARG_TYPE_: stripping the
\* value read again changes nothing, A_ARG_TYPE_Foo reads as Foo, a name
\* that does not begin with the prefix reads as itself, and a read leaves
\* the stored value as it was.
C7_StripIdempotent == []StripReads /\ [][subject' = subject]_vars

C7_Witness ==
    /\ subject.kind = "Argument"
    /\ last.op = "related_state_variable"
    /\ subject.v.related_state_variable = Prefix \o Prefix \o Foo
    /\ last.out = Foo

\* C9: what name() and related_state_variable() return never begins with
\* A_ARG_TYPE_: every consecutive leading occurrence is removed, so
\* A_ARG_TYPE_A_ARG_TYPE_Foo reads as Foo and A_ARG_TYPE_ reads as empty.
C9_NoLeadingPrefixLeft ==
    /\ (subject.kind = "StateVariable" /\ last.op = "name") =>
          /\ ~ BeginsWithPrefix(last.out)
          /\ (subject.v.name = Prefix \o Prefix \o Foo => last.out = Foo)
          /\ (subject.v.name = Prefix => last.out = <<>>)
    /\ (subject.kind = "Argument" /\ last.op = "related_state_variable") =>
          /\ ~ BeginsWithPrefix(last.out)
          /\ (subject.v.related_state_variable = Prefix \o Prefix \o Foo
                => last.out = Foo)
          /\ (subject.v.related_state_variable = Prefix => last.out = <<>>)

C9_Witness ==
    /\ subject.kind = "StateVariable"
    /\ last.op = "name"
    /\ subject.v.name = Prefix \o Prefix \o Foo
    /\ last.out = Foo

\* C10: a StateVariable whose allowed_value_list is present but empty maps to
\* its own stripped name for every data_type and never panics; only one
\* whose allowed_value_list is absent is mapped by its data_type.
C10_PresenceDecides ==
    /\ (MapperCalled /\ subject.v.allowed_value_list = Some(Value(<<>>)))
          => last.out = Returned(name(subject.v))
    /\ (MapperCalled /\ ListAbsent)
          => /\ subject.v.data_type \in Unsupported => last.out = Panicked
             /\ subject.v.data_type \in Supported
                   => last.out = Returned(TargetType[subject.v.data_type])

C10_Witness ==
    /\ MapperCalled
    /\ subject.v.allowed_value_list = Some(Value(<<>>))
    /\ subject.v.data_type = "dateTime"
    /\ subject.v.name = Prefix \o Foo
    /\ last.out = Returned(Foo)

\* C2 as stated: the urn of a constructed SCPD is assigned exactly once.
C2_UrnAssignedOnce == scpd # NoSCPD => urn_sets = 1

\* C2 amended: from_url assigns the urn once before it returns the SCPD, the
\* public setter set_urn may assign it again any number of times, and
\* state_variables and actions stay what was deserialized for as long as the
\* value exists.
C2_OnlyUrnChanges ==
    scpd # NoSCPD =>
        /\ urn_sets >= 1
        /\ state_variables(scpd) = body.doc.service_state_table.value
        /\ actions(scpd) = body.doc.action_list.value
        /\ state_variables(scpd) = state_variables(result.val)
        /\ actions(scpd) = actions(result.val)

C2_Witness ==
    /\ scpd # NoSCPD
    /\ urn_sets = 2
    /\ urn(scpd) # req.urn
    /\ state_variables(scpd) # <<>>
    /\ actions(scpd) # <<>>

\* C8: a from_url call issues one GET and never another, and ends in one
\* outcome: NetworkError with no deserialization attempted when no body was
\* read; else ParseError and no SCPD when the body does not deserialize; else
\* an SCPD with the supplied urn and exactly the deserialized tables.
C8_FetchOutcome ==
    /\ gets <= 1
    /\ parses <= gets
    /\ pc # "done" => (result = NoResult /\ scpd = NoSCPD)
    /\ pc = "done" =>
          /\ gets = 1
          /\ result.kind \in {"Ok", "NetworkError", "ParseError"}
          /\ body = NoBody <=> result.kind = "NetworkError"
          /\ result.kind = "NetworkError" => (parses = 0 /\ scpd = NoSCPD)
          /\ (body # NoBody /\ body.kind = "malformed") <=> result.kind = "ParseError"
          /\ result.kind = "ParseError" =>
                (parses = 1 /\ scpd = NoSCPD /\ DOMAIN result = {"kind"})
          /\ result.kind = "Ok" =>
                /\ parses = 1
                /\ urn(result.val) = req.urn
                /\ state_variables(result.val) = body.doc.service_state_table.value
                /\ actions(result.val) = body.doc.action_list.value

C8_Witness ==
    /\ pc = "done"
    /\ result.kind = "Ok"
    /\ urn(result.val) = "urn:schemas-upnp-org:service:RenderingControl:1"
    /\ state_variables(result.val) # <<>>
    /\ actions(result.val) # <<>>

====
